---- MODULE Spec2Model ----
(***************************************************************************)
(* Model of lhotse/features/opensmile.py: the OpenSmileConfig record with  *)
(* its to_dict / from_dict conversions, and the OpenSmileWrapper adapter   *)
(* around an opensmile.Smile engine instance.                              *)
(***************************************************************************)
EXTENDS Integers, Sequences, FiniteSets, TLC

(***************************************************************************)
(* Python values.  Every value is a record of one shape, so that values of *)
(* different Python types can be compared and collected in one set.        *)
(***************************************************************************)
PyVal(kind, i, s, keys, items) ==
    [kind |-> kind, i |-> i, s |-> s, keys |-> keys, items |-> items]

PyNone == PyVal("NoneType", 0, "", <<>>, <<>>)

PyInt(n) == PyVal("int", n, "", <<>>, <<>>)

PyStr(s) == PyVal("str", 0, s, <<>>, <<>>)

PyBool(b) == PyVal("bool", IF b THEN 1 ELSE 0, "", <<>>, <<>>)

\* a member of an engine-defined enum (opensmile.FeatureSet, FeatureLevel)
PyEnum(name) == PyVal("enum", 0, name, <<>>, <<>>)

PyList(items) == PyVal("list", 0, "", <<>>, items)

PyTuple(items) == PyVal("tuple", 0, "", <<>>, items)

\* the dict {keys[1]: items[1], ...}
PyDict(keys, items) == PyVal("dict", 0, "", keys, items)

(***************************************************************************)
(* OpenSmileConfig: the eleven dataclass fields and their defaults.        *)
(***************************************************************************)
Fields ==
    {"feature_set", "feature_level", "options", "loglevel", "logfile",
     "sampling_rate", "channels", "mixdown", "resample", "num_workers",
     "verbose"}

DefaultConfig ==
    [feature_set   |-> PyStr("ComParE_2016"),
     feature_level |-> PyStr("lld"),
     options       |-> PyNone,
     loglevel      |-> PyInt(2),
     logfile       |-> PyNone,
     sampling_rate |-> PyInt(16000),
     channels      |-> PyInt(0),
     mixdown       |-> PyBool(FALSE),
     resample      |-> PyBool(FALSE),
     num_workers   |-> PyInt(1),
     verbose       |-> PyBool(FALSE)]

\* The values each field is drawn from: its default and the other shapes
\* its annotation and comment allow.
FieldValues ==
    [feature_set   |-> {PyStr("ComParE_2016"), PyEnum("eGeMAPSv02")},
     feature_level |-> {PyStr("lld"), PyEnum("Functionals")},
     options       |-> {PyNone, PyDict(<<"nmfcc">>, <<13>>)},
     loglevel      |-> {PyInt(2), PyInt(5)},
     logfile       |-> {PyNone, PyStr("smile.log")},
     sampling_rate |-> {PyInt(16000), PyInt(8000), PyNone},
     channels      |-> {PyInt(0), PyList(<<0, 1>>), PyTuple(<<0, 1>>)},
     mixdown       |-> {PyBool(FALSE), PyBool(TRUE)},
     resample      |-> {PyBool(FALSE), PyBool(TRUE)},
     num_workers   |-> {PyInt(1), PyNone},
     verbose       |-> {PyBool(FALSE), PyBool(TRUE)}]

\* every combination of field values
ConfigValues ==
    [feature_set   : FieldValues.feature_set,
     feature_level : FieldValues.feature_level,
     options       : FieldValues.options,
     loglevel      : FieldValues.loglevel,
     logfile       : FieldValues.logfile,
     sampling_rate : FieldValues.sampling_rate,
     channels      : FieldValues.channels,
     mixdown       : FieldValues.mixdown,
     resample      : FieldValues.resample,
     num_workers   : FieldValues.num_workers,
     verbose       : FieldValues.verbose]

\* copy.deepcopy of a leaf value: an equal value (an enum member is
\* returned as itself, a scalar is immutable)
DeepCopy(v) == PyVal(v.kind, v.i, v.s, v.keys, v.items)

\* a variant of the conversion below that turns every sequence into a list,
\* as a JSON-style dump would
AsdictInnerTupleAsList(v) ==
    CASE v.kind \in {"list", "tuple"} ->
            PyVal("list", 0, "", <<>>, [j \in DOMAIN v.items |-> v.items[j]])
      [] v.kind = "dict" ->
            PyVal(v.kind, 0, "", [j \in DOMAIN v.keys |-> v.keys[j]],
                  [j \in DOMAIN v.items |-> v.items[j]])
      [] OTHER -> DeepCopy(v)

\* dataclasses._asdict_inner on a field value: a list or tuple is rebuilt
\* as type(obj)(...) of its converted items, a dict as type(obj)(...) of
\* its converted pairs, anything else is deep-copied.
AsdictInner(v) ==
    CASE v.kind \in {"list", "tuple"} ->
            PyVal(v.kind, 0, "", <<>>, [j \in DOMAIN v.items |-> v.items[j]])
      [] v.kind = "dict" ->
            PyVal(v.kind, 0, "", [j \in DOMAIN v.keys |-> v.keys[j]],
                  [j \in DOMAIN v.items |-> v.items[j]])
      [] OTHER -> DeepCopy(v)

\* OpenSmileConfig.to_dict: asdict(self), one key per dataclass field
to_dict(c) == [k \in Fields |-> AsdictInner(c[k])]

\* a variant of the constructor below in which no field has a default
NewConfigAllRequired(kwargs) ==
    IF DOMAIN kwargs = Fields
    THEN [err |-> "", config |-> [k \in Fields |-> kwargs[k]]]
    ELSE [err |-> "TypeError", config |-> DefaultConfig]

\* The generated dataclass __init__ called with keyword arguments: a keyword
\* that is no field raises TypeError; a field not given takes its default.
NewConfig(kwargs) ==
    IF DOMAIN kwargs \subseteq Fields
    THEN [err |-> "",
          config |-> [k \in Fields |->
                        IF k \in DOMAIN kwargs THEN kwargs[k]
                        ELSE DefaultConfig[k]]]
    ELSE [err |-> "TypeError", config |-> DefaultConfig]

\* OpenSmileConfig.from_dict: OpenSmileConfig(**data)
from_dict(data) == NewConfig(data)

(***************************************************************************)
(* Bounds of the model.                                                    *)
(***************************************************************************)
\* rows of the table the engine returns from one process_signal call
MaxFrames == 2

\* keys a caller removes from or adds to a serialized mapping
MaxEdits == 1

(***************************************************************************)
(* State.                                                                  *)
(***************************************************************************)
VARIABLES
    cfgIn,      \* a configuration record
    cfgData,    \* the mapping held by the caller (to_dict's result, edited)
    cfgPc,      \* "built", "dumped" (to_dict ran), "loaded" (from_dict ran)
    cfgOut,     \* from_dict's outcome
    installed,  \* is_module_available("opensmile")
    module,     \* "unloaded" or "loaded": lhotse.features.opensmile itself
    registry,   \* names registered by register_extractor
    adapters,   \* the OpenSmileWrapper objects
    engines,    \* the opensmile.Smile instances created, in creation order
    last        \* the last call and its outcome

cfgVars == <<cfgIn, cfgData, cfgPc, cfgOut>>

adapterVars == <<installed, module, registry, adapters, engines, last>>

vars == <<cfgIn, cfgData, cfgPc, cfgOut,
          installed, module, registry, adapters, engines, last>>

\* the adapter objects: two, so that each is seen beside another one
AdapterIds == {1, 2}

\* stands for a configuration that is absent (config=None, no object yet)
NoConfig == [k \in Fields |-> PyVal("absent", 0, "", <<>>, <<>>)]

NoData == [k \in {} |-> PyNone]

NoResult == [err |-> "not called", config |-> NoConfig]

\* keys that are no field of the record: a misnamed field and an extra one
ExtraKeys == {"sample_rate", "comment"}

(***************************************************************************)
(* Return values, uniform in shape.                                        *)
(***************************************************************************)
Ret(kind, n, names, data) ==
    [kind |-> kind, n |-> n, names |-> names, data |-> data]

RetNothing == Ret("nothing", 0, <<>>, <<>>)

RetInt(n) == Ret("int", n, <<>>, <<>>)

RetNames(names) == Ret("list", 0, names, <<>>)

\* a 2-D numpy array, row by row
RetArray(data) == Ret("ndarray", 0, <<>>, data)

(***************************************************************************)
(* The external engine, opensmile.  Its results are opaque to the adapter: *)
(* they are fixed per engine configuration here, and whether a call        *)
(* succeeds is left open.                                                  *)
(***************************************************************************)
InstallMsg == "To use opensmile extractors, please \"pip install opensmile\" first."

\* list(opensmile.FeatureSet.__members__)
FeatureSetMembers == <<"ComParE_2016", "GeMAPSv01a", "eGeMAPSv02">>

\* the names an engine instance lists, by its feature set and level
SmileFeatureNames(params) ==
    LET set == IF params.feature_set.s = "ComParE_2016"
               THEN <<"pcm_RMSenergy_sma", "F0final_sma">>
               ELSE <<"Loudness_sma3", "F0semitoneFrom27.5Hz_sma3nz",
                      "alphaRatio_sma3">>
    IN  IF params.feature_level.s = "lld" THEN set
        ELSE [j \in DOMAIN set |-> set[j] \o "_amean"]

NoFrame == [columns |-> <<>>, index |-> <<>>, values |-> <<>>]

\* the pandas.DataFrame a successful process_signal returns: nrows rows
\* labelled by the index, one column per feature name
SmileFrame(engine, samples, nrows) ==
    [columns |-> engine.names,
     index   |-> [r \in 1 .. nrows |-> r - 1],
     values  |-> [r \in 1 .. nrows |->
                    [c \in 1 .. Len(engine.names) |->
                        (r - 1) * Len(engine.names) + c + Len(samples)]]]

\* DataFrame.to_numpy(): the values, without index and column labels
to_numpy(frame) == RetArray(frame.values)

NoEngineCall ==
    [calls |-> 0, samples |-> <<>>, rate |-> PyNone, err |-> "", ret |-> NoFrame]

NoCall ==
    [op |-> "none", adapter |-> 0, samples |-> <<>>, rate |-> PyNone,
     outcome |-> "none", msg |-> "", value |-> RetNothing,
     imported |-> FALSE, engine |-> NoEngineCall]

Call(op, a, samples, rate, outcome, msg, value, imported, engine) ==
    [op |-> op, adapter |-> a, samples |-> samples, rate |-> rate,
     outcome |-> outcome, msg |-> msg, value |-> value,
     imported |-> imported, engine |-> engine]

(***************************************************************************)
(* The configuration record: serialize, edit the mapping, reconstruct.     *)
(***************************************************************************)
Edits(data) ==
    Cardinality(Fields \ DOMAIN data) + Cardinality(DOMAIN data \ Fields)

\* c.to_dict()
ToDict ==
    /\ cfgPc = "built"
    /\ cfgData' = to_dict(cfgIn)
    /\ cfgPc' = "dumped"
    /\ UNCHANGED <<cfgIn, cfgOut, adapterVars>>

\* the caller deletes a key of the mapping
DropKey(k) ==
    /\ cfgPc = "dumped"
    /\ k \in DOMAIN cfgData
    /\ Edits(cfgData) < MaxEdits
    /\ cfgData' = [j \in DOMAIN cfgData \ {k} |-> cfgData[j]]
    /\ UNCHANGED <<cfgIn, cfgPc, cfgOut, adapterVars>>

\* the caller adds a key that is no field
AddKey(k) ==
    /\ cfgPc = "dumped"
    /\ k \notin DOMAIN cfgData
    /\ Edits(cfgData) < MaxEdits
    /\ cfgData' = [j \in DOMAIN cfgData \cup {k} |->
                     IF j = k THEN PyInt(0) ELSE cfgData[j]]
    /\ UNCHANGED <<cfgIn, cfgPc, cfgOut, adapterVars>>

\* OpenSmileConfig.from_dict(data)
FromDict ==
    /\ cfgPc = "dumped"
    /\ cfgOut' = from_dict(cfgData)
    /\ cfgPc' = "loaded"
    /\ UNCHANGED <<cfgIn, cfgData, adapterVars>>

(***************************************************************************)
(* The adapter, OpenSmileWrapper.                                          *)
(***************************************************************************)
NoAdapter == [state |-> "uninitialized", config |-> NoConfig, smileExtractor |-> 0]

\* the configurations adapters are built from: the default one and every
\* change of a single field
AdapterConfigs ==
    {[k \in Fields |-> IF k = f THEN v ELSE DefaultConfig[k]] :
        <<f, v>> \in {p \in Fields \X UNION {FieldValues[k] : k \in Fields} :
                        p[2] \in FieldValues[p[1]]}}

\* the sampling rates and sample buffers callers pass to the adapter
Rates == {PyInt(16000), PyInt(8000), PyNone}

Samples == {<<0, 0>>, <<1, 0, 1>>}

\* Executing the module: the imports of lines 1-7 (none of them opensmile),
\* the two class bodies, and @register_extractor on the adapter class.
LoadModule ==
    /\ module = "unloaded"
    /\ module' = "loaded"
    /\ registry' = registry \cup {"opensmile-wrapper"}
    /\ last' = Call("import", 0, <<>>, PyNone, "return", "", RetNothing,
                    FALSE, NoEngineCall)
    /\ UNCHANGED <<cfgVars, installed, adapters, engines>>

\* a variant of featuresets_names() that imports opensmile before checking
\* that it is available
FeaturesetsNamesImportFirst ==
    /\ module = "loaded"
    /\ last' = IF ~installed
               THEN Call("featuresets_names", 0, <<>>, PyNone,
                         "ModuleNotFoundError", "No module named 'opensmile'",
                         RetNothing, TRUE, NoEngineCall)
               ELSE Call("featuresets_names", 0, <<>>, PyNone, "return", "",
                         RetNames(FeatureSetMembers), TRUE, NoEngineCall)
    /\ UNCHANGED <<cfgVars, installed, module, registry, adapters, engines>>

\* OpenSmileConfig.featuresets_names()
FeaturesetsNames ==
    /\ module = "loaded"
    /\ last' = IF ~installed
               THEN Call("featuresets_names", 0, <<>>, PyNone,
                         "AssertionError", InstallMsg, RetNothing, FALSE,
                         NoEngineCall)
               ELSE Call("featuresets_names", 0, <<>>, PyNone, "return", "",
                         RetNames(FeatureSetMembers), TRUE, NoEngineCall)
    /\ UNCHANGED <<cfgVars, installed, module, registry, adapters, engines>>

\* FeatureExtractor.__init__(config): config=None stands for the default
\* configuration of config_type
FeatureExtractorInit(config) ==
    IF config = NoConfig THEN DefaultConfig ELSE config

\* a variant of the keyword arguments below with mixdown and resample
\* exchanged
SmileKwargsSwapped(config) ==
    [feature_set   |-> config.feature_set,
     feature_level |-> config.feature_level,
     sampling_rate |-> config.sampling_rate,
     options       |-> config.options,
     loglevel      |-> config.loglevel,
     logfile       |-> config.logfile,
     channels      |-> config.channels,
     mixdown       |-> config.resample,
     resample      |-> config.mixdown,
     num_workers   |-> config.num_workers,
     verbose       |-> config.verbose]

\* the keyword arguments of the opensmile.Smile(...) call
SmileKwargs(config) ==
    [feature_set   |-> config.feature_set,
     feature_level |-> config.feature_level,
     sampling_rate |-> config.sampling_rate,
     options       |-> config.options,
     loglevel      |-> config.loglevel,
     logfile       |-> config.logfile,
     channels      |-> config.channels,
     mixdown       |-> config.mixdown,
     resample      |-> config.resample,
     num_workers   |-> config.num_workers,
     verbose       |-> config.verbose]

\* a new opensmile.Smile instance built from keyword arguments
Smile(kwargs) == [params |-> kwargs, names |-> SmileFeatureNames(kwargs)]

\* OpenSmileWrapper(config).  engineOk: whether opensmile.Smile(...) returns
\* an instance or raises (bad feature set, bad config path, bad options).
\* When __init__ raises, the half-built object is dropped: no adapter.
Construct(a, config, engineOk) ==
    /\ module = "loaded"
    /\ adapters[a].state = "uninitialized"
    /\ LET cfg == FeatureExtractorInit(config)
       IN  IF ~installed
           THEN /\ last' = Call("__init__", a, <<>>, PyNone, "AssertionError",
                                InstallMsg, RetNothing, FALSE, NoEngineCall)
                /\ UNCHANGED <<adapters, engines>>
           ELSE IF ~engineOk
           THEN /\ last' = Call("__init__", a, <<>>, PyNone, "EngineError",
                                "opensmile.Smile", RetNothing, TRUE,
                                NoEngineCall)
                /\ UNCHANGED <<adapters, engines>>
           ELSE /\ engines' = Append(engines, Smile(SmileKwargs(cfg)))
                /\ adapters' = [adapters EXCEPT ![a] =
                                  [state |-> "ready", config |-> cfg,
                                   smileExtractor |-> Len(engines) + 1]]
                /\ last' = Call("__init__", a, <<>>, PyNone, "return", "",
                                RetNothing, TRUE, NoEngineCall)
    /\ UNCHANGED <<cfgVars, installed, module, registry>>

\* the frame_shift property
frame_shift(a) == RetInt(0)

\* a variant of feature_dim that counts the engine's feature names
feature_dim_from_names(a, sampling_rate) ==
    RetInt(Len(engines[adapters[a].smileExtractor].names))

\* feature_dim(sampling_rate)
feature_dim(a, sampling_rate) == RetInt(0)

\* a variant of feature_names in which smileExtractor is the class
\* attribute, shared by all adapters: the engine built last
feature_names_shared_engine(a) == RetNames(engines[Len(engines)].names)

\* feature_names(): self.smileExtractor.feature_names()
feature_names(a) == RetNames(engines[adapters[a].smileExtractor].names)

\* a variant of the condition below that lets any rate through when the
\* configuration asks for resampling
SamplingRateMatchesOrResample(sampling_rate, config) ==
    sampling_rate = config.sampling_rate \/ config.resample = PyBool(TRUE)

\* the condition asserted on entry to extract
SamplingRateMatches(sampling_rate, config) ==
    sampling_rate = config.sampling_rate

EngineCall(samples, rate, err, ret) ==
    [calls |-> 1, samples |-> samples, rate |-> rate, err |-> err, ret |-> ret]

\* a variant of extract that catches an engine failure and returns an
\* empty array
ExtractResultSwallowing(a, samples, sampling_rate, engineOk, nrows) ==
    LET self == adapters[a]
        engine == engines[self.smileExtractor]
        frame == SmileFrame(engine, samples, nrows)
    IN  IF ~SamplingRateMatches(sampling_rate, self.config)
        THEN Call("extract", a, samples, sampling_rate, "AssertionError", "",
                  RetNothing, FALSE, NoEngineCall)
        ELSE IF ~engineOk
        THEN Call("extract", a, samples, sampling_rate, "return", "",
                  RetArray(<<>>), FALSE,
                  EngineCall(samples, sampling_rate, "process_signal", NoFrame))
        ELSE Call("extract", a, samples, sampling_rate, "return", "",
                  to_numpy(frame), FALSE,
                  EngineCall(samples, sampling_rate, "", frame))

\* extract(samples, sampling_rate), as the call record it leaves.  engineOk:
\* whether process_signal returns a table (of nrows rows) or raises.
ExtractResult(a, samples, sampling_rate, engineOk, nrows) ==
    LET self == adapters[a]
        engine == engines[self.smileExtractor]
        frame == SmileFrame(engine, samples, nrows)
    IN  IF ~SamplingRateMatches(sampling_rate, self.config)
        THEN Call("extract", a, samples, sampling_rate, "AssertionError", "",
                  RetNothing, FALSE, NoEngineCall)
        ELSE IF ~engineOk
        THEN Call("extract", a, samples, sampling_rate, "EngineError",
                  "process_signal", RetNothing, FALSE,
                  EngineCall(samples, sampling_rate, "process_signal", NoFrame))
        ELSE Call("extract", a, samples, sampling_rate, "return", "",
                  to_numpy(frame), FALSE,
                  EngineCall(samples, sampling_rate, "", frame))

FrameShift(a) ==
    /\ adapters[a].state = "ready"
    /\ last' = Call("frame_shift", a, <<>>, PyNone, "return", "",
                    frame_shift(a), FALSE, NoEngineCall)
    /\ UNCHANGED <<cfgVars, installed, module, registry, adapters, engines>>

FeatureDim(a, sampling_rate) ==
    /\ adapters[a].state = "ready"
    /\ last' = Call("feature_dim", a, <<>>, sampling_rate, "return", "",
                    feature_dim(a, sampling_rate), FALSE, NoEngineCall)
    /\ UNCHANGED <<cfgVars, installed, module, registry, adapters, engines>>

FeatureNames(a) ==
    /\ adapters[a].state = "ready"
    /\ last' = Call("feature_names", a, <<>>, PyNone, "return", "",
                    feature_names(a), FALSE, NoEngineCall)
    /\ UNCHANGED <<cfgVars, installed, module, registry, adapters, engines>>

\* a variant of extract that builds a fresh engine for each call
ExtractRebuildingEngine(a, samples, sampling_rate, engineOk, nrows) ==
    /\ adapters[a].state = "ready"
    /\ engines' = Append(engines, Smile(SmileKwargs(adapters[a].config)))
    /\ adapters' = [adapters EXCEPT ![a].smileExtractor = Len(engines) + 1]
    /\ last' = ExtractResult(a, samples, sampling_rate, engineOk, nrows)
    /\ UNCHANGED <<cfgVars, installed, module, registry>>

Extract(a, samples, sampling_rate, engineOk, nrows) ==
    /\ adapters[a].state = "ready"
    /\ last' = ExtractResult(a, samples, sampling_rate, engineOk, nrows)
    /\ UNCHANGED <<cfgVars, installed, module, registry, adapters, engines>>

(***************************************************************************)
(* Specifications.                                                         *)
(***************************************************************************)
\* the adapter: nothing loaded, no adapter built
Init ==
    /\ installed \in BOOLEAN
    /\ module = "unloaded"
    /\ registry = {}
    /\ adapters = [a \in AdapterIds |-> NoAdapter]
    /\ engines = <<>>
    /\ last = NoCall
    /\ cfgIn = DefaultConfig
    /\ cfgData = NoData
    /\ cfgPc = "idle"
    /\ cfgOut = NoResult

Next ==
    \/ LoadModule
    \/ FeaturesetsNames
    \/ \E a \in AdapterIds, config \in AdapterConfigs \cup {NoConfig},
          engineOk \in BOOLEAN : Construct(a, config, engineOk)
    \/ \E a \in AdapterIds : FrameShift(a)
    \/ \E a \in AdapterIds, sampling_rate \in Rates : FeatureDim(a, sampling_rate)
    \/ \E a \in AdapterIds : FeatureNames(a)
    \/ \E a \in AdapterIds, samples \in Samples, sampling_rate \in Rates,
          engineOk \in BOOLEAN :
            \E nrows \in IF engineOk THEN 1 .. MaxFrames ELSE {1} :
                Extract(a, samples, sampling_rate, engineOk, nrows)

Spec == Init /\ [][Next]_vars

\* the configuration record alone: the module is loaded, a record is built
InitConfig ==
    /\ installed \in BOOLEAN
    /\ module = "loaded"
    /\ registry = {"opensmile-wrapper"}
    /\ adapters = [a \in AdapterIds |-> NoAdapter]
    /\ engines = <<>>
    /\ last = NoCall
    /\ cfgIn \in ConfigValues
    /\ cfgData = NoData
    /\ cfgPc = "built"
    /\ cfgOut = NoResult

NextConfig ==
    \/ ToDict
    \/ \E k \in Fields : DropKey(k)
    \/ \E k \in ExtraKeys : AddKey(k)
    \/ FromDict

SpecConfig == InitConfig /\ [][NextConfig]_vars

(***************************************************************************)
(* Properties.                                                             *)
(***************************************************************************)
Ready(a) == adapters[a].state = "ready"

\* the engine instance adapter a holds
EngineOf(a) == engines[adapters[a].smileExtractor]

\* the last call was extract on an adapter, with these arguments
LastExtract == last.op = "extract" /\ last.adapter \in AdapterIds

\* C1: for every configuration c, whatever its field values (options,
\* logfile, sampling_rate, num_workers absent; channels an int, a list or a
\* tuple), from_dict(c.to_dict()) succeeds and equals c field for field.
C1_RoundTrip ==
    (cfgPc = "loaded" /\ DOMAIN cfgData = Fields /\ cfgData = to_dict(cfgIn))
        => /\ cfgOut.err = ""
           /\ \A k \in Fields : cfgOut.config[k] = cfgIn[k]

C1_Witness ==
    /\ cfgPc = "loaded"
    /\ DOMAIN cfgData = Fields
    /\ cfgData = to_dict(cfgIn)
    /\ cfgIn.options = PyNone
    /\ cfgIn.logfile = PyNone
    /\ cfgIn.sampling_rate = PyNone
    /\ cfgIn.num_workers = PyNone
    /\ cfgIn.channels = PyTuple(<<0, 1>>)
    /\ cfgOut.err = ""

\* C5 as stated: from_dict returns a record exactly when the keys of data
\* are exactly the fields, and fails on an extra key and on a missing key.
C5_ExactKeysRequired ==
    cfgPc = "loaded" => (cfgOut.err = "" <=> DOMAIN cfgData = Fields)

\* C5 amended: from_dict fails (TypeError) exactly when data has a key that
\* is no field; when every key is a field it returns a record holding the
\* given value of each key present and the default of each field omitted.
C5_UnknownKeyFails ==
    cfgPc = "loaded" =>
        /\ cfgOut.err \in {"", "TypeError"}
        /\ cfgOut.err = "TypeError" <=> ~(DOMAIN cfgData \subseteq Fields)
        /\ cfgOut.err = "" =>
              \A k \in Fields :
                  cfgOut.config[k] = IF k \in DOMAIN cfgData THEN cfgData[k]
                                     ELSE DefaultConfig[k]

C5_Witness ==
    /\ cfgPc = "loaded"
    /\ "sampling_rate" \notin DOMAIN cfgData
    /\ DOMAIN cfgData \subseteq Fields
    /\ cfgIn.sampling_rate = PyInt(8000)
    /\ cfgOut.err = ""
    /\ cfgOut.config.sampling_rate = PyInt(16000)

C3_OneEnginePerAdapter ==
    /\ [](/\ Len(engines) = Cardinality({a \in AdapterIds : Ready(a)})
          /\ \A a \in AdapterIds :
                Ready(a) => adapters[a].smileExtractor \in 1 .. Len(engines)
          /\ \A a, b \in AdapterIds :
                (Ready(a) /\ Ready(b) /\ a # b)
                    => adapters[a].smileExtractor # adapters[b].smileExtractor)
    /\ [][\A a \in AdapterIds :
            Ready(a) => /\ adapters'[a] = adapters[a]
                        /\ EngineOf(a)' = EngineOf(a)]_vars

C3_Witness ==
    /\ LastExtract
    /\ last.outcome \in {"AssertionError", "EngineError"}
    /\ \A a \in AdapterIds : Ready(a)
    /\ Len(engines) = 2

\* C4: without the engine package, featuresets_names() and construction
\* fail with the install instruction before anything is imported or
\* instantiated, so no adapter is ever ready and no engine exists; loading
\* the module itself succeeds and registers the adapter.
C4_MissingDependency ==
    ~installed =>
        /\ \A a \in AdapterIds : ~Ready(a)
        /\ engines = <<>>
        /\ last.op \in {"featuresets_names", "__init__"} =>
              /\ last.outcome = "AssertionError"
              /\ last.msg = InstallMsg
              /\ ~last.imported
        /\ last.op = "import" => last.outcome = "return"
        /\ module = "loaded" => "opensmile-wrapper" \in registry

C4_Witness ==
    /\ ~installed
    /\ module = "loaded"
    /\ last.op = "__init__"
    /\ last.outcome = "AssertionError"
    /\ last.msg = InstallMsg

\* C6: an extract call whose sampling_rate matches calls process_signal
\* once, with the samples and rate given; if the engine raises, extract
\* ends with that same error and no array; otherwise it returns the whole
\* table as an array, every row and every column.
C6_EngineOutcomeIsExtractOutcome ==
    (LastExtract /\ last.rate = adapters[last.adapter].config.sampling_rate)
        => /\ last.engine.calls = 1
           /\ last.engine.samples = last.samples
           /\ last.engine.rate = last.rate
           /\ IF last.engine.err # ""
              THEN /\ last.outcome = "EngineError"
                   /\ last.msg = last.engine.err
                   /\ last.value = RetNothing
              ELSE /\ last.outcome = "return"
                   /\ last.value.kind = "ndarray"
                   /\ last.value.data = last.engine.ret.values
                   /\ Len(last.value.data) = Len(last.engine.ret.index)
                   /\ Len(last.value.data) >= 1
                   /\ \A r \in DOMAIN last.value.data :
                         Len(last.value.data[r]) = Len(EngineOf(last.adapter).names)

C6_Witness ==
    /\ LastExtract
    /\ last.rate = adapters[last.adapter].config.sampling_rate
    /\ last.engine.err # ""
    /\ last.outcome = "EngineError"

\* C7: frame_shift and feature_dim(sampling_rate) return 0 on every ready
\* adapter, for every configuration and every sampling_rate argument, and
\* neither fails or calls the engine.
C7_PlaceholdersReturnZero ==
    last.op \in {"frame_shift", "feature_dim"} =>
        /\ last.outcome = "return"
        /\ last.value = RetInt(0)
        /\ last.engine = NoEngineCall

C7_Witness ==
    /\ last.op = "feature_dim"
    /\ adapters[last.adapter].config.feature_set = PyEnum("eGeMAPSv02")
    /\ last.rate # adapters[last.adapter].config.sampling_rate
    /\ last.value = RetInt(0)

\* C8: feature_names() returns the names of the adapter's own engine
\* instance, in the engine's order, and what it would return is not changed
\* by any call.
C8_FeatureNamesForwarded ==
    /\ [](last.op = "feature_names" =>
            /\ last.outcome = "return"
            /\ last.value = RetNames(EngineOf(last.adapter).names))
    /\ [][\A a \in AdapterIds :
            Ready(a) => /\ Ready(a)'
                        /\ EngineOf(a)'.names = EngineOf(a).names]_vars

C8_Witness ==
    /\ last.op = "feature_names"
    /\ \A a \in AdapterIds : Ready(a)
    /\ engines[1].names # engines[2].names
    /\ last.value = RetNames(EngineOf(last.adapter).names)

\* C9: an adapter whose configuration has no sampling_rate accepts extract
\* with any actual rate and forwards that rate to the engine.
C9_AbsentRateAcceptsAnyRate ==
    (/\ LastExtract
     /\ adapters[last.adapter].config.sampling_rate = PyNone
     /\ last.rate.kind = "int")
        => /\ last.outcome # "AssertionError"
           /\ last.engine.calls = 1
           /\ last.engine.rate = last.rate

\* C10: the parameters every engine instance was built with are the eleven
\* fields of its adapter's configuration, each under its own name, and no
\* call changes a ready adapter's configuration.
C10_EngineParamsAreConfig ==
    /\ [](\A a \in AdapterIds :
            Ready(a) => /\ DOMAIN EngineOf(a).params = Fields
                        /\ \A k \in Fields :
                              EngineOf(a).params[k] = adapters[a].config[k])
    /\ [][\A a \in AdapterIds :
            Ready(a) => adapters'[a].config = adapters[a].config]_vars

C10_Witness ==
    /\ \E a \in AdapterIds :
          /\ Ready(a)
          /\ adapters[a].config.mixdown = PyBool(TRUE)
          /\ EngineOf(a).params.mixdown = PyBool(TRUE)
          /\ EngineOf(a).params.resample = PyBool(FALSE)
    /\ last.op \in {"extract", "feature_names"}

====
